---- MODULE Spec2Model ----
(***************************************************************************)
(* Model of the cognitive scoring-and-attribution engine:                  *)
(*   backend/scripts/cognitive_model_scorer.py  (CognitiveModelScorer)     *)
(*   backend/scripts/shap_explainer.py          (CognitiveShapExplainer)   *)
(*                                                                         *)
(* Numbers.  The code computes in binary floating point; the model         *)
(* computes in exact integer arithmetic on fixed grids:                    *)
(*   - a raw or normalized feature value v stands for v / ONE   (1e-2),    *)
(*   - a weight, a bias multiplier, an accuracy w stands for w / ONE,      *)
(*   - a model prediction p stands for p / MICRO                (1e-6),    *)
(*   - a confidence c stands for c / TENK                       (1e-4),    *)
(*   - a quotient the code leaves as a float is kept as an exact           *)
(*     fraction [num, den].                                                *)
(* The special floats (NaN, +inf, -inf), None, a missing key and a         *)
(* non-numeric value are separate kinds of raw value.                      *)
(***************************************************************************)
EXTENDS Integers, Sequences, FiniteSets, TLC

VARIABLES
    pc,              \* where main() is: "start", "exit0", "exit1"
    features,        \* the request's raw feature mapping
    prediction,      \* the explainer's input prediction: its raw riskScore
    env,             \* the environment: SHAP backend, chart rendering, and
                     \* what main() found in sys.argv
    noise,           \* the draws of np.random.normal, per model or per feature
    failed,          \* the models whose computation raised
    feature_vector,  \* the normalized vector (a list in the scorer, a dict
                     \* in the explainer)
    predictions,     \* the scorer's per-model predictions
    terms,           \* locals of the handler, kept for inspection
    result,          \* the response written to standard output
    rng,             \* the state of numpy's global generator in one process
    threads,         \* the requests one process serves side by side
    config,          \* the tables of the two objects, as they stand
    held             \* the internal objects the caller holds a reference to

vars == <<pc, features, prediction, env, noise, failed, feature_vector,
          predictions, terms, result, rng, threads, config, held>>

\* ------------------------------------------------------------------ grids
ONE == 10 * 10
TENK == ONE * ONE
MICRO == ONE * ONE * ONE

\* ------------------------------------------------------- bounds of the model
\* noise draws are the multiples k * NoiseUnit, k in -NoiseSteps..NoiseSteps
NoiseSteps == 1

\* ------------------------------------------------------------- arithmetic
Abs(x) == IF x < 0 THEN -x ELSE x

Max(a, b) == IF b > a THEN b ELSE a

Min(a, b) == IF b < a THEN b ELSE a

\* a clamp that forgot its upper end
ClampLowerOnly(lo, hi, x) == Max(lo, x)

\* max(lo, min(hi, x)) as the code writes every clamp
Clamp(lo, hi, x) == Max(lo, Min(hi, x))

RECURSIVE SumSeq(_)
SumSeq(s) == IF s = <<>> THEN 0 ELSE Head(s) + SumSeq(Tail(s))

RECURSIVE SumFun(_, _)
SumFun(f, S) ==
    IF S = {} THEN 0
    ELSE LET x == CHOOSE y \in S : TRUE IN f[x] + SumFun(f, S \ {x})

\* floor of the square root, by bisection on lo..hi
RECURSIVE SqrtBetween(_, _, _)
SqrtBetween(x, lo, hi) ==
    IF lo >= hi THEN lo
    ELSE LET mid == (lo + hi + 1) \div 2
         IN IF mid * mid <= x THEN SqrtBetween(x, mid, hi)
                              ELSE SqrtBetween(x, lo, mid - 1)

ISqrt(x) == SqrtBetween(x, 0, 4 * TENK)

\* ------------------------------------------------------------ raw values
Absent == [kind |-> "absent", val |-> 0]
None == [kind |-> "none", val |-> 0]
NaN == [kind |-> "nan", val |-> 0]
PosInf == [kind |-> "posinf", val |-> 0]
NegInf == [kind |-> "neginf", val |-> 0]
Str == [kind |-> "str", val |-> 0]
Num(v) == [kind |-> "num", val |-> v]

\* features.get(name, None) is None
IsNone(raw) == raw.kind \in {"absent", "none"}

\* np.isnan(value) raises TypeError on a value that is no number
IsnanRaises(raw) == raw.kind = "str"

\* max(0.0, min(1.0, float(value))) on a float that may be infinite
ClampUnit(raw) ==
    CASE raw.kind = "posinf" -> ONE
      [] raw.kind = "neginf" -> 0
      [] OTHER -> Clamp(0, ONE, raw.val)

\* ---------------------------------------------------- scorer configuration
feature_names ==
    << "wordCount", "sentenceCount", "averageWordsPerSentence", "typeTokenRatio",
       "vocabularySize", "lexicalDiversity", "complexWordRatio", "averageWordLength",
       "cognitiveHealthScore", "syntacticComplexity", "informationDensity",
       "hesitationRatio" >>

\* the items of the feature_importance dict, in insertion order
feature_importance ==
    << <<"cognitiveHealthScore", 22>>, <<"syntacticComplexity", 18>>,
       <<"lexicalDiversity", 15>>, <<"informationDensity", 12>>,
       <<"hesitationRatio", 10>>, <<"vocabularySize", 8>>,
       <<"typeTokenRatio", 6>>, <<"complexWordRatio", 4>>,
       <<"averageWordLength", 3>>, <<"averageWordsPerSentence", 2>> >>

models ==
    [ random_forest |-> [type |-> "RandomForest", accuracy |-> 89],
      gradient_boosting |-> [type |-> "GradientBoosting", accuracy |-> 91],
      neural_network |-> [type |-> "NeuralNetwork", accuracy |-> 87],
      svm |-> [type |-> "SVM", accuracy |-> 85] ]

ModelNames == DOMAIN models

\* the model-specific bias of _simulate_model_prediction
BiasMultiplier(type) ==
    CASE type = "RandomForest" -> 105
      [] type = "GradientBoosting" -> 98
      [] type = "NeuralNetwork" -> 102
      [] type = "SVM" -> 96
      [] OTHER -> ONE

\* standard deviation of np.random.normal(0, 0.02), on the prediction grid
SIGMA == 20000

IndexOf(name) == CHOOSE i \in 1..Len(feature_names) : feature_names[i] = name

\* ------------------------------------------------------------ the scorer
\* _prepare_feature_vector raises when np.isnan meets a non-numeric value
ScorerPrepareRaises(f) ==
    \E i \in 1..Len(feature_names) : IsnanRaises(f[feature_names[i]])

ScorerNormalize(raw) ==
    IF ~IsNone(raw) /\ raw.kind # "nan" THEN ClampUnit(raw) ELSE ONE \div 2

ScorerPrepareFeatureVector(f) ==
    [i \in 1..Len(feature_names) |-> ScorerNormalize(f[feature_names[i]])]

\* the value the i-th weight of feature_importance is multiplied with
PairedValue(fv, i) == fv[i]

RECURSIVE BaseScore(_, _, _)
BaseScore(fv, bias, i) ==
    IF i > Len(feature_importance) THEN 0
    ELSE (IF i <= Len(fv)
            THEN PairedValue(fv, i) * feature_importance[i][2] * bias
            ELSE 0)
         + BaseScore(fv, bias, i + 1)

\* a prediction returned without the final clamp
SimulateModelPredictionUnclamped(fv, model_info, n) ==
    BaseScore(fv, BiasMultiplier(model_info.type), 1) + n

SimulateModelPrediction(fv, model_info, n) ==
    Clamp(0, MICRO, BaseScore(fv, BiasMultiplier(model_info.type), 1) + n)

\* a model whose computation raised is given the neutral prediction
GetEnsemblePredictionsNeutralForFailed(fv, ns, fl) ==
    [m \in ModelNames |->
        IF m \in fl THEN MICRO \div 2
        ELSE SimulateModelPrediction(fv, models[m], ns[m])]

\* the models whose computation raised are skipped
GetEnsemblePredictions(fv, ns, fl) ==
    [m \in ModelNames \ fl |-> SimulateModelPrediction(fv, models[m], ns[m])]

\* a finite float num/den; the other kinds are the special floats
Frac(n, d) == [kind |-> "num", num |-> n, den |-> d]

Half == Frac(1, 2)

\* a plain mean that ignores the accuracies
CalculateEnsembleScoreUnweighted(preds) ==
    IF DOMAIN preds = {} THEN Half
    ELSE Frac(SumFun(preds, DOMAIN preds), MICRO * Cardinality(DOMAIN preds))

\* a weighted sum divided by the accuracies of all the models
CalculateEnsembleScoreAllAccuracies(preds) ==
    IF DOMAIN preds = {} THEN Half
    ELSE Frac(SumFun([m \in DOMAIN preds |-> preds[m] * models[m].accuracy],
                     DOMAIN preds),
              MICRO * SumFun([m \in ModelNames |-> models[m].accuracy],
                             ModelNames))

\* the fraction num/den of MICRO-grid predictions, as a fraction of 1
CalculateEnsembleScore(preds) ==
    IF DOMAIN preds = {} THEN Half
    ELSE LET weighted_sum ==
                 SumFun([m \in DOMAIN preds |-> preds[m] * models[m].accuracy],
                        DOMAIN preds)
             total_weight ==
                 SumFun([m \in DOMAIN preds |-> models[m].accuracy], DOMAIN preds)
         IN IF total_weight = 0 THEN Half
            ELSE IF weighted_sum > MICRO * total_weight THEN Frac(1, 1)
            ELSE IF weighted_sum < 0 THEN Frac(0, 1)
            ELSE Frac(weighted_sum, MICRO * total_weight)

\* np.std of the predictions on the confidence grid; the predictions are
\* rounded to 1e-3 so that the squares stay in range
StdDev(preds) ==
    LET D == DOMAIN preds
        n == Cardinality(D)
        s1 == SumFun([m \in D |-> preds[m] \div 1000], D)
        s2 == SumFun([m \in D |-> (preds[m] \div 1000) * (preds[m] \div 1000)], D)
    IN ISqrt(ONE * (n * s2 - s1 * s1)) \div n

\* a base confidence that subtracts the deviation once
BaseConfidenceOfSingleStd(n, std_dev) ==
    IF n = 1 THEN 7000 ELSE Max(5000, TENK - std_dev)

\* base_confidence: 0.7 for a single prediction, else
\* max(0.5, 1.0 - std_dev * 2)
BaseConfidenceOf(n, std_dev) ==
    IF n = 1 THEN 7000 ELSE Max(5000, TENK - std_dev * 2)

\* max(0.3, min(0.95, base_confidence + completeness_bonus + extreme_bonus))
ConfidenceOf(n, std_dev, completeness_bonus, extreme_bonus) ==
    Clamp(3000, 9500,
          BaseConfidenceOf(n, std_dev) + completeness_bonus + extreme_bonus)

\* sum(1 for f in feature_vector if f is not None and not np.isnan(f)):
\* every entry of the prepared vector is a finite number
NonNullFeatures(fv) == Cardinality({i \in DOMAIN fv : fv[i] \in Int})

\* a bonus that counts the entries that are not the default 0.5
CompletenessBonusWithoutDefaults(fv) ==
    (Cardinality({i \in DOMAIN fv : fv[i] # ONE \div 2}) * 2000)
        \div Len(feature_names)

CompletenessBonus(fv) == (NonNullFeatures(fv) * 2000) \div Len(feature_names)

\* abs(np.mean(pred_values) - 0.5) * 0.1
ExtremeBonus(preds) ==
    LET D == DOMAIN preds
        n == Cardinality(D)
    IN Abs(SumFun(preds, D) - n * (MICRO \div 2)) \div (n * 1000)

CalculatePredictionConfidence(preds, fv) ==
    IF DOMAIN preds = {} THEN 3000
    ELSE ConfidenceOf(Cardinality(DOMAIN preds), StdDev(preds),
                      CompletenessBonus(fv), ExtremeBonus(preds))

\* the locals of the scoring pipeline, kept for inspection
ScorerTerms(fv, preds, ns) ==
    [n |-> Cardinality(DOMAIN preds),
     base_score |-> [m \in DOMAIN preds |->
                        BaseScore(fv, BiasMultiplier(models[m].type), 1)],
     std |-> IF DOMAIN preds = {} THEN 0 ELSE StdDev(preds),
     completeness |-> IF DOMAIN preds = {} THEN 0 ELSE CompletenessBonus(fv),
     extreme |-> IF DOMAIN preds = {} THEN 0 ELSE ExtremeBonus(preds)]

\* self.feature_importance.get(feature_name, 0.01), in thousandths
BaseImportance(name) ==
    IF \E i \in 1..Len(feature_importance) : feature_importance[i][1] = name
    THEN 10 * feature_importance[
             CHOOSE i \in 1..Len(feature_importance) :
                 feature_importance[i][1] = name][2]
    ELSE 10

\* the importances as they stand before the division by their total
CalculateFeatureImportanceUnnormalized(fv) ==
    [num |-> [name \in {feature_names[i] : i \in 1..Len(feature_names)} |->
                 BaseImportance(name) + Abs(fv[IndexOf(name)] - ONE \div 2)],
     den |-> 10 * ONE]

\* importance before and after the division by the total, in thousandths
CalculateFeatureImportance(fv) ==
    LET raw == [i \in 1..Len(feature_names) |->
                   BaseImportance(feature_names[i]) + Abs(fv[i] - ONE \div 2)]
        total == SumSeq(raw)
        byName == [name \in {feature_names[i] : i \in 1..Len(feature_names)} |->
                      raw[IndexOf(name)]]
    IN IF total > 0 THEN [num |-> byName, den |-> total]
                    ELSE [num |-> byName, den |-> 1]

\* len([f for f in feature_vector if f is not None])
FeaturesUsed(fv) == Cardinality({i \in DOMAIN fv : fv[i] \in Int})

EnsembleResult(fv, preds) ==
    [riskScore |-> CalculateEnsembleScore(preds),
     confidence |-> CalculatePredictionConfidence(preds, fv),
     featureImportance |-> CalculateFeatureImportance(fv),
     modelPredictions |-> preds,
     processingTime |-> "elapsed",
     modelType |-> "ensemble",
     featuresUsed |-> FeaturesUsed(fv),
     timestamp |-> "now"]

\* --------------------------------------------------------- fallback scoring
Special(k) == [kind |-> k, num |-> 0, den |-> 1]

\* x * 0.7 + 0.5 * 0.3 on a float that may be special, in 1/TENK
Blend(raw) ==
    IF raw.kind = "num" THEN Frac(raw.val * 70 + 1500, TENK) ELSE Special(raw.kind)

\* score - h * 0.2 in IEEE arithmetic
Penalized(score, h) ==
    CASE score.kind = "nan" \/ h.kind = "nan" -> Special("nan")
      [] h.kind = "num" /\ score.kind = "num" -> Frac(score.num - h.val * 20, TENK)
      [] h.kind = "num" -> score
      [] h.kind = "posinf" ->
            IF score.kind = "posinf" THEN Special("nan") ELSE Special("neginf")
      [] h.kind = "neginf" ->
            IF score.kind = "neginf" THEN Special("nan") ELSE Special("posinf")

\* max(0.0, x): Python keeps 0.0 unless x > 0.0, so NaN gives 0.0
MaxZero(x) ==
    CASE x.kind = "num" -> Frac(Max(0, x.num), x.den)
      [] x.kind = "posinf" -> x
      [] OTHER -> Frac(0, x.den)

\* the arithmetic of _fallback_scoring raises on None and on a non-number
FallbackRaises(f) ==
    \/ f["cognitiveHealthScore"].kind \in {"none", "str"}
    \/ f["hesitationRatio"].kind \in {"none", "str"}

\* the blend of the primary feature alone
FallbackScoreUnpenalized(f) ==
    LET chs == f["cognitiveHealthScore"]
    IN IF chs.kind # "absent" THEN Blend(chs) ELSE Frac(TENK \div 2, TENK)

FallbackScore(f) ==
    LET chs == f["cognitiveHealthScore"]
        hes == f["hesitationRatio"]
        s1 == IF chs.kind # "absent" THEN Blend(chs) ELSE Frac(TENK \div 2, TENK)
    IN IF hes.kind # "absent" THEN MaxZero(Penalized(s1, hes)) ELSE s1

FallbackScoring(f) ==
    [riskScore |-> FallbackScore(f),
     confidence |-> 4000,
     featureImportance |->
         [num |-> [name \in {feature_importance[i][1] :
                                 i \in 1..Len(feature_importance)} |->
                      BaseImportance(name)],
          den |-> 10 * ONE],
     modelPredictions |-> [fallback |-> FallbackScore(f)],
     processingTime |-> "elapsed",
     modelType |-> "fallback",
     error |-> "TypeError",
     timestamp |-> "now"]

\* the response main() prints when score_features itself raised
ErrorResult ==
    [riskScore |-> Half, confidence |-> 3000, error |-> "TypeError",
     modelType |-> "error", timestamp |-> "now"]

\* ------------------------------------------------- explainer configuration
shap_feature_names ==
    << "wordCount", "sentenceCount", "averageWordsPerSentence", "typeTokenRatio",
       "vocabularySize", "lexicalDiversity", "complexWordRatio", "averageWordLength",
       "cognitiveHealthScore", "syntacticComplexity", "informationDensity",
       "hesitationRatio", "sentimentScore" >>

ShapNames == {shap_feature_names[i] : i \in 1..Len(shap_feature_names)}

feature_weights ==
    [ cognitiveHealthScore |-> 25, syntacticComplexity |-> 18,
      lexicalDiversity |-> 15, informationDensity |-> 12,
      hesitationRatio |-> -10, vocabularySize |-> 8, typeTokenRatio |-> 6,
      complexWordRatio |-> 4, averageWordLength |-> 3,
      averageWordsPerSentence |-> 2, wordCount |-> 2, sentenceCount |-> 1,
      sentimentScore |-> 4 ]

\* self.expected_value = 0.5
expected_value == 50

feature_ranges ==
    [ wordCount |-> <<1000, 50000>>, sentenceCount |-> <<200, 5000>>,
      averageWordsPerSentence |-> <<500, 2500>>, typeTokenRatio |-> <<30, 100>>,
      vocabularySize |-> <<2000, 40000>>, lexicalDiversity |-> <<30, 100>>,
      complexWordRatio |-> <<0, 50>>, averageWordLength |-> <<300, 800>>,
      cognitiveHealthScore |-> <<0, 100>>, syntacticComplexity |-> <<0, 100>>,
      informationDensity |-> <<0, 100>>, hesitationRatio |-> <<0, 30>>,
      sentimentScore |-> <<-200, 200>> ]

\* standard deviation of np.random.normal(0, 0.01), in 1/TENK
SHAP_SIGMA == 100

\* ---------------------------------------------------------- the explainer
\* (value - min_val) / (max_val - min_val), clamped; the quotient is rounded
\* down to the feature grid
NormalizeFeature(name, raw) ==
    IF name \notin DOMAIN feature_ranges THEN ClampUnit(raw)
    ELSE LET min_val == feature_ranges[name][1]
             max_val == feature_ranges[name][2]
         IN CASE raw.kind = "posinf" -> ONE
              [] raw.kind = "neginf" -> 0
              [] OTHER ->
                   Clamp(0, ONE, ((raw.val - min_val) * ONE) \div (max_val - min_val))

ExplainerNormalize(name, raw) ==
    IF ~IsNone(raw) /\ raw.kind # "nan" THEN NormalizeFeature(name, raw)
    ELSE ONE \div 2

ExplainerPrepareRaises(f) == \E name \in ShapNames : IsnanRaises(f[name])

ExplainerPrepareFeatureVector(f) ==
    [name \in ShapNames |-> ExplainerNormalize(name, f[name])]

\* self.feature_weights.get(feature_name, 0.01)
Weight(name) ==
    IF name \in DOMAIN feature_weights THEN feature_weights[name] ELSE 1

\* prediction.get('riskScore', 0.5)
RiskScoreOf(pred) == IF pred.kind = "absent" THEN ONE \div 2 ELSE pred.val

\* risk_score - self.expected_value raises on None and on a non-number
RiskRaises(pred) == pred.kind \in {"none", "str"}

TotalContribution(pred) == RiskScoreOf(pred) - expected_value

TotalWeight(fv) == SumFun([name \in DOMAIN fv |-> Abs(Weight(name))], DOMAIN fv)

\* (value - 0.5) * weight, in 1/TENK
RawContribution(fv, name) == (fv[name] - ONE \div 2) * Weight(name)

RawSum(fv) == SumFun([name \in DOMAIN fv |-> RawContribution(fv, name)], DOMAIN fv)

\* Attributions are fractions over one denominator: the value of feature k is
\* num[k] / den, in 1/ONE (the grid of riskScore).
\* deviation * weight * (total_contribution / total_weight)
CalculateApproximateShap(fv, pred) ==
    LET total_weight == TotalWeight(fv)
    IN IF total_weight > 0
       THEN [num |-> [name \in DOMAIN fv |->
                         RawContribution(fv, name) * TotalContribution(pred)],
             den |-> total_weight * ONE]
       ELSE [num |-> [name \in DOMAIN fv |-> 0], den |-> 1]

\* scaled_contribution + noise, before the adjustment
PerturbedContributions(fv, pred, ns) ==
    LET weighted_sum == TotalWeight(fv)
    IN IF weighted_sum > 0
       THEN [num |-> [name \in DOMAIN fv |->
                         RawContribution(fv, name) * TotalContribution(pred)
                         + ns[name] * weighted_sum],
             den |-> weighted_sum * ONE]
       ELSE [num |-> [name \in DOMAIN fv |-> ns[name]], den |-> ONE]

\* a rescaling by the sum of the magnitudes
AdjustByMagnitudes(pre, total) ==
    LET magnitudes == SumFun([name \in DOMAIN pre.num |-> Abs(pre.num[name])],
                             DOMAIN pre.num)
    IN IF magnitudes # 0
       THEN [num |-> [name \in DOMAIN pre.num |-> pre.num[name] * total],
             den |-> magnitudes]
       ELSE pre

\* shap_values = {k: v * adjustment_factor} when current_sum != 0
Adjust(pre, total) ==
    LET current_sum == SumFun(pre.num, DOMAIN pre.num)
    IN IF current_sum # 0
       THEN [num |-> [name \in DOMAIN pre.num |-> pre.num[name] * total],
             den |-> current_sum]
       ELSE pre

\* the noise added to contributions that were rescaled before
CalculateTreeShapNoiseLast(fv, pred, ns) ==
    LET adj == Adjust(PerturbedContributions(fv, pred, [name \in DOMAIN fv |-> 0]),
                      TotalContribution(pred))
    IN [num |-> [name \in DOMAIN fv |-> adj.num[name] * ONE + ns[name] * adj.den],
        den |-> adj.den * ONE]

CalculateTreeShap(fv, pred, ns) ==
    Adjust(PerturbedContributions(fv, pred, ns), TotalContribution(pred))

CalculateShapValues(fv, pred, ns, shap_available) ==
    IF ~shap_available THEN CalculateApproximateShap(fv, pred)
    ELSE CalculateTreeShap(fv, pred, ns)

\* one chart kind is requested; its rendering succeeds or fails on its own
GenerateVisualizations(viz) ==
    CASE viz = "ok" -> [bar |-> "generated"]
      [] viz = "chart_failed" -> [bar |-> "failed"]
      [] OTHER -> <<>>

ExplanationResult(fv, shap_values, viz) ==
    [shapValues |-> shap_values,
     baseValue |-> expected_value,
     expectedValue |-> expected_value,
     featureNames |-> DOMAIN shap_values.num,
     featureValues |-> fv,
     modelType |-> "ensemble",
     processingTime |-> "elapsed",
     visualizations |-> GenerateVisualizations(viz)]

FallbackExplanation(f, pred) ==
    LET fv == ExplainerPrepareFeatureVector(f)
        shap_values == CalculateApproximateShap(fv, pred)
    IN [shapValues |-> shap_values,
        baseValue |-> expected_value,
        expectedValue |-> expected_value,
        featureNames |-> DOMAIN shap_values.num,
        featureValues |-> fv,
        modelType |-> "fallback",
        processingTime |-> "elapsed",
        error |-> "OSError",
        visualizations |-> <<>>]

\* the response main() prints when generate_shap_explanation itself raised
ShapErrorResult ==
    [shapValues |-> [num |-> <<>>, den |-> 1],
     baseValue |-> expected_value,
     expectedValue |-> expected_value,
     featureNames |-> {},
     featureValues |-> <<>>,
     modelType |-> "error",
     processingTime |-> "elapsed",
     error |-> "TypeError",
     visualizations |-> <<>>]

ShapTerms(fv, pred) ==
    [total |-> TotalContribution(pred), raw_sum |-> RawSum(fv)]

\* ------------------------------------------------------------- requests
ScorerNames == {feature_names[i] : i \in 1..Len(feature_names)}

AllNames == ScorerNames \cup {"sentimentScore"}

RawNumbers == {-50, 0, 30, 100, 200}

RawValues ==
    {Absent, None, NaN, PosInf, NegInf, Str} \cup {Num(v) : v \in RawNumbers}

\* every feature at one raw value, but for at most one overridden feature
Uniform(d) == [name \in AllNames |-> d]

Override(d, name, v) == [Uniform(d) EXCEPT ![name] = v]

ScoreDefaults == {Absent, Num(0), Num(50), Num(100)}

ScoreOverrides == {"wordCount", "cognitiveHealthScore", "hesitationRatio"}

\* requests the try block fails on (wordCount is no number) while
\* cognitiveHealthScore, hesitationRatio and one more feature vary freely
FallbackValues == {Absent} \cup {Num(v) : v \in RawNumbers}

FallbackRequests ==
    {[Uniform(Absent) EXCEPT !["wordCount"] = Str,
                             !["cognitiveHealthScore"] = c,
                             !["hesitationRatio"] = h,
                             !["informationDensity"] = o] :
        c \in FallbackValues, h \in FallbackValues, o \in {Absent, Num(ONE)}}

ScoreRequests ==
    {Uniform(d) : d \in ScoreDefaults}
    \cup {Override(d, name, v) : d \in ScoreDefaults, name \in ScoreOverrides,
                                 v \in RawValues}
    \cup FallbackRequests

\* a draw of 13 standard deviations makes two models disagree by more than 0.5
NoiseUnit == 13 * SIGMA

NoiseDraws == {k * NoiseUnit : k \in -NoiseSteps..NoiseSteps}

NoTerms == [n |-> 0, base_score |-> <<>>, std |-> 0, completeness |-> 0,
            extreme |-> 0]

NoNoise == [m \in ModelNames |-> 0]

\* what main() finds in sys.argv[1]: a JSON object, nothing, a text that is
\* no JSON object, or an object whose "features" is null
Inputs == {"object", "missing", "malformed", "features_null"}

NoEnv == [shap_available |-> FALSE, viz |-> "none", input |-> "object"]

\* the tables as __init__ of CognitiveModelScorer and of
\* CognitiveShapExplainer leave them
Constructed ==
    [feature_names |-> feature_names,
     feature_importance |-> feature_importance,
     models |-> models,
     shap_feature_names |-> shap_feature_names,
     feature_weights |-> feature_weights,
     feature_ranges |-> feature_ranges,
     expected_value |-> expected_value]

\* the generator of a process that serves one request is never drawn from twice
NoRng == [seed |-> 0, pos |-> 0]

\* ------------------------------------------------------------- behaviour
Init ==
    /\ pc = "start"
    /\ features = Uniform(Absent)
    /\ prediction = Absent
    /\ env = NoEnv
    /\ noise = NoNoise
    /\ failed = {}
    /\ feature_vector = <<>>
    /\ predictions = <<>>
    /\ terms = NoTerms
    /\ result = [modelType |-> "none"]
    /\ rng = NoRng
    /\ threads = <<>>
    /\ config = Constructed
    /\ held = {}

\* main() -> score_features: the try block runs to its end
ScoreEnsemble ==
    /\ pc = "start"
    /\ \E f \in ScoreRequests, ns \in [ModelNames -> NoiseDraws],
          fl \in SUBSET ModelNames :
          /\ ~ScorerPrepareRaises(f)
          /\ \A m \in fl : ns[m] = 0
          /\ LET fv == ScorerPrepareFeatureVector(f)
                 preds == GetEnsemblePredictions(fv, ns, fl)
             IN /\ features' = f
                /\ noise' = ns
                /\ failed' = fl
                /\ feature_vector' = fv
                /\ predictions' = preds
                /\ terms' = ScorerTerms(fv, preds, ns)
                /\ result' = EnsembleResult(fv, preds)
    /\ pc' = "exit0"
    /\ UNCHANGED <<prediction, env>>
    /\ UNCHANGED <<rng, threads, config, held>>

\* main() -> score_features: the try block raised, _fallback_scoring answers
ScoreFallback ==
    /\ pc = "start"
    /\ \E f \in ScoreRequests :
          /\ ScorerPrepareRaises(f)
          /\ ~FallbackRaises(f)
          /\ features' = f
          /\ result' = FallbackScoring(f)
    /\ pc' = "exit0"
    /\ UNCHANGED <<prediction, env, noise, failed, feature_vector, predictions,
                   terms>>
    /\ UNCHANGED <<rng, threads, config, held>>

\* main(): _fallback_scoring raised too; the error result is printed, exit(1)
ScoreError ==
    /\ pc = "start"
    /\ \E f \in ScoreRequests :
          /\ ScorerPrepareRaises(f)
          /\ FallbackRaises(f)
          /\ features' = f
          /\ result' = ErrorResult
    /\ pc' = "exit1"
    /\ UNCHANGED <<prediction, env, noise, failed, feature_vector, predictions,
                   terms>>
    /\ UNCHANGED <<rng, threads, config, held>>

\* main() -> score_features(None): features.get raises in the try block and
\* the membership test on None raises in _fallback_scoring; exit(1)
ScoreNone ==
    /\ pc = "start"
    /\ env' = [env EXCEPT !.input = "features_null"]
    /\ result' = ErrorResult
    /\ pc' = "exit1"
    /\ UNCHANGED <<features, prediction, noise, failed, feature_vector,
                   predictions, terms>>
    /\ UNCHANGED <<rng, threads, config, held>>

\* main(): no argument, or json.loads / input_data.get raised; exit(1)
MainBadInput ==
    /\ pc = "start"
    /\ \E a \in Inputs \ {"object", "features_null"} :
          env' = [env EXCEPT !.input = a]
    /\ result' = [ErrorResult EXCEPT !.error = "ValueError"]
    /\ pc' = "exit1"
    /\ UNCHANGED <<features, prediction, noise, failed, feature_vector,
                   predictions, terms>>
    /\ UNCHANGED <<rng, threads, config, held>>

Next ==
    \/ ScoreEnsemble
    \/ ScoreFallback
    \/ ScoreError
    \/ ScoreNone
    \/ MainBadInput

Spec == Init /\ [][Next]_vars

\* ------------------------------------------------- the explainer's requests
ShapRawNumbers == {-300, 0, 15, 100, 25500, 60000}

ShapRawValues ==
    {Absent, None, NaN, PosInf, NegInf, Str} \cup {Num(v) : v \in ShapRawNumbers}

ShapDefaults == {Absent, Num(100)}

ShapOverrides == {"wordCount", "cognitiveHealthScore", "hesitationRatio",
                  "sentimentScore"}

ShapRequests ==
    {Uniform(d) : d \in ShapDefaults}
    \cup {Override(d, name, v) : d \in ShapDefaults, name \in ShapOverrides,
                                 v \in ShapRawValues}

Predictions == {Absent, None, Str} \cup {Num(v) : v \in {0, 20, 50, 80, 100}}

NoisyNames == {"wordCount", "hesitationRatio"}

\* per-feature draws; all but the features of NoisyNames draw 0
ShapNoises ==
    {[name \in ShapNames |-> IF name \in NoisyNames THEN d[name] ELSE 0] :
        d \in [NoisyNames -> {k * SHAP_SIGMA : k \in -NoiseSteps..NoiseSteps}]}

NoShapNoise == [name \in ShapNames |-> 0]

ShapInit ==
    /\ pc = "start"
    /\ features = Uniform(Absent)
    /\ prediction = Absent
    /\ env = NoEnv
    /\ noise = NoShapNoise
    /\ failed = {}
    /\ feature_vector = <<>>
    /\ predictions = <<>>
    /\ terms = [total |-> 0, raw_sum |-> 0]
    /\ result = [modelType |-> "none"]
    /\ rng = NoRng
    /\ threads = <<>>
    /\ config = Constructed
    /\ held = {}

\* main() -> generate_shap_explanation: the try block runs to its end
ExplainEnsemble ==
    /\ pc = "start"
    /\ \E f \in ShapRequests, pred \in Predictions, ns \in ShapNoises,
          sa \in BOOLEAN, viz \in {"none", "ok", "chart_failed"} :
          /\ ~ExplainerPrepareRaises(f)
          /\ ~RiskRaises(pred)
          /\ ~sa => ns = NoShapNoise
          /\ LET fv == ExplainerPrepareFeatureVector(f)
             IN /\ features' = f
                /\ prediction' = pred
                /\ env' = [shap_available |-> sa, viz |-> viz, input |-> "object"]
                /\ noise' = ns
                /\ feature_vector' = fv
                /\ terms' = ShapTerms(fv, pred)
                /\ result' = ExplanationResult(
                                 fv, CalculateShapValues(fv, pred, ns, sa), viz)
    /\ pc' = "exit0"
    /\ UNCHANGED <<failed, predictions>>
    /\ UNCHANGED <<rng, threads, config, held>>

\* the attribution was computed, then os.makedirs raised inside
\* _generate_visualizations: _fallback_explanation answers
ExplainFallback ==
    /\ pc = "start"
    /\ \E f \in ShapRequests, pred \in Predictions, ns \in ShapNoises,
          sa \in BOOLEAN :
          /\ ~ExplainerPrepareRaises(f)
          /\ ~RiskRaises(pred)
          /\ ~sa => ns = NoShapNoise
          /\ features' = f
          /\ noise' = ns
          /\ prediction' = pred
          /\ env' = [shap_available |-> sa, viz |-> "makedirs_failed",
                  input |-> "object"]
          /\ feature_vector' = ExplainerPrepareFeatureVector(f)
          /\ terms' = ShapTerms(ExplainerPrepareFeatureVector(f), pred)
          /\ result' = FallbackExplanation(f, pred)
    /\ pc' = "exit0"
    /\ UNCHANGED <<failed, predictions>>
    /\ UNCHANGED <<rng, threads, config, held>>

\* _prepare_feature_vector or the subtraction from riskScore raised, and
\* raised again in _fallback_explanation: main() prints the error result and
\* exits with status 1
ExplainError ==
    /\ pc = "start"
    /\ \E f \in ShapRequests, pred \in Predictions :
          /\ ExplainerPrepareRaises(f) \/ RiskRaises(pred)
          /\ features' = f
          /\ prediction' = pred
          /\ result' = ShapErrorResult
    /\ pc' = "exit1"
    /\ UNCHANGED <<env, noise, failed, feature_vector, predictions, terms>>
    /\ UNCHANGED <<rng, threads, config, held>>

\* main() -> generate_shap_explanation(None, ...): features.get raises in
\* the try block and again in _fallback_explanation; exit(1)
ExplainNone ==
    /\ pc = "start"
    /\ \E pred \in Predictions : prediction' = pred
    /\ env' = [env EXCEPT !.input = "features_null"]
    /\ result' = ShapErrorResult
    /\ pc' = "exit1"
    /\ UNCHANGED <<features, noise, failed, feature_vector, predictions, terms>>
    /\ UNCHANGED <<rng, threads, config, held>>

\* main(): no argument, or json.loads / input_data.get raised; exit(1)
ShapMainBadInput ==
    /\ pc = "start"
    /\ \E a \in Inputs \ {"object", "features_null"} :
          env' = [env EXCEPT !.input = a]
    /\ result' = [ShapErrorResult EXCEPT !.error = "ValueError"]
    /\ pc' = "exit1"
    /\ UNCHANGED <<features, prediction, noise, failed, feature_vector,
                   predictions, terms>>
    /\ UNCHANGED <<rng, threads, config, held>>

ShapNext ==
    \/ ExplainEnsemble
    \/ ExplainFallback
    \/ ExplainError
    \/ ExplainNone
    \/ ShapMainBadInput

SpecShap == ShapInit /\ [][ShapNext]_vars

\* ---------------------------------------- normalization on its own
NormRawNumbers == {-300, 0, 15, 30, 50, 100, 200, 25500, 60000}

NormRawValues ==
    {Absent, None, NaN, PosInf, NegInf, Str} \cup {Num(v) : v \in NormRawNumbers}

NormRequests ==
    {Uniform(d) : d \in {Absent, Num(50)}}
    \cup {Override(d, name, v) : d \in {Absent, Num(50)}, name \in AllNames,
                                 v \in NormRawValues}

NormInit ==
    /\ pc = "start"
    /\ features \in NormRequests
    /\ prediction = Absent
    /\ env = NoEnv
    /\ noise = NoNoise
    /\ failed = {}
    /\ feature_vector = <<>>
    /\ predictions = <<>>
    /\ terms = NoTerms
    /\ result = [modelType |-> "none"]
    /\ rng = NoRng
    /\ threads = <<>>
    /\ config = Constructed
    /\ held = {}

\* CognitiveModelScorer._prepare_feature_vector returns
PrepareScorer ==
    /\ pc = "start"
    /\ ~ScorerPrepareRaises(features)
    /\ feature_vector' = ScorerPrepareFeatureVector(features)
    /\ pc' = "scorer_vector"
    /\ UNCHANGED <<features, prediction, env, noise, failed, predictions, terms,
                   result>>
    /\ UNCHANGED <<rng, threads, config, held>>

\* CognitiveShapExplainer._prepare_feature_vector returns
PrepareExplainer ==
    /\ pc = "start"
    /\ ~ExplainerPrepareRaises(features)
    /\ feature_vector' = ExplainerPrepareFeatureVector(features)
    /\ pc' = "explainer_vector"
    /\ UNCHANGED <<features, prediction, env, noise, failed, predictions, terms,
                   result>>
    /\ UNCHANGED <<rng, threads, config, held>>

\* either of them raises on a value that is no number
PrepareRaises ==
    /\ pc = "start"
    /\ ScorerPrepareRaises(features) \/ ExplainerPrepareRaises(features)
    /\ pc' = "raised"
    /\ UNCHANGED <<features, prediction, env, noise, failed, feature_vector,
                   predictions, terms, result>>
    /\ UNCHANGED <<rng, threads, config, held>>

NormNext == PrepareScorer \/ PrepareExplainer \/ PrepareRaises

SpecNorm == NormInit /\ [][NormNext]_vars

\* ------------------------------- two requests served by one process
\* the order in which self.models.items() yields the models
ModelOrder == << "random_forest", "gradient_boosting", "neural_network", "svm" >>

\* np.random.normal(0, 0.02) on the global generator: the draw is a function
\* of the generator's state, which every draw advances
Normal(g) == (((g.seed + g.pos * g.pos) % 3) - 1) * NoiseUnit

Advance(g) == [g EXCEPT !.pos = @ + 1]

\* the draws of one request, by model
NoiseOf(draws) ==
    [m \in ModelNames |->
        draws[CHOOSE k \in 1..Len(ModelOrder) : ModelOrder[k] = m]]

\* score_features(features, options) given the draws it was handed; options
\* is never read
ScoreFeatures(f, options, draws) ==
    LET fv == ScorerPrepareFeatureVector(f)
    IN EnsembleResult(fv, GetEnsemblePredictions(fv, NoiseOf(draws), {}))

Threads == {1, 2}

Seeds == 0..2

ConcRequests == {Uniform(Absent), Uniform(Num(100))}

ConcOptions == {[noiseSeed |-> Num(7)], [noiseSeed |-> Num(8)]}

ConcInit ==
    /\ pc = "serving"
    /\ features = Uniform(Absent)
    /\ prediction = Absent
    /\ env = NoEnv
    /\ noise = NoNoise
    /\ failed = {}
    /\ feature_vector = <<>>
    /\ predictions = <<>>
    /\ terms = NoTerms
    /\ result = [modelType |-> "none"]
    /\ config = Constructed
    /\ held = {}
    /\ rng \in {[seed |-> sd, pos |-> 0] : sd \in Seeds}
    /\ threads \in [Threads -> {[features |-> f, options |-> o, start |-> 0,
                                 draws |-> <<>>,
                                 result |-> [modelType |-> "none"]] :
                                    f \in ConcRequests, o \in ConcOptions}]

\* one iteration of the loop of _get_ensemble_predictions in one request:
\* _simulate_model_prediction draws from the global generator
ConcPredict ==
    /\ pc = "serving"
    /\ \E t \in Threads :
          /\ Len(threads[t].draws) < Len(ModelOrder)
          /\ threads' = [threads EXCEPT
                            ![t].draws = Append(@, Normal(rng)),
                            ![t].start = IF threads[t].draws = <<>>
                                         THEN rng.pos ELSE @]
          /\ rng' = Advance(rng)
    /\ UNCHANGED <<pc, features, prediction, env, noise, failed, feature_vector,
                   predictions, terms, result, config, held>>

\* the rest of score_features in one request: the response is returned
ConcRespond ==
    /\ pc = "serving"
    /\ \E t \in Threads :
          /\ Len(threads[t].draws) = Len(ModelOrder)
          /\ threads[t].result.modelType = "none"
          /\ threads' = [threads EXCEPT
                            ![t].result = ScoreFeatures(threads[t].features,
                                                        threads[t].options,
                                                        threads[t].draws)]
    /\ UNCHANGED <<pc, features, prediction, env, noise, failed, feature_vector,
                   predictions, terms, result, rng, config, held>>

ConcNext == ConcPredict \/ ConcRespond

SpecConc == ConcInit /\ [][ConcNext]_vars

\* ------------------- one scorer and one explainer called again and again
LibRequests ==
    {Uniform(d) : d \in ScoreDefaults}
    \cup {Override(Absent, name, v) : name \in ScoreOverrides, v \in RawValues}

LibInit ==
    /\ pc = "constructed"
    /\ features = Uniform(Absent)
    /\ prediction = Absent
    /\ env = NoEnv
    /\ noise = NoNoise
    /\ failed = {}
    /\ feature_vector = <<>>
    /\ predictions = <<>>
    /\ terms = NoTerms
    /\ result = [modelType |-> "none"]
    /\ rng = NoRng
    /\ threads = <<>>
    /\ config = Constructed
    /\ held = {}

\* score_features returns from its try block: every value of the response is
\* an object built during the call.  The draws are kept at 0 here.
LibScoreEnsemble ==
    /\ pc \in {"constructed", "serving"}
    /\ \E f \in LibRequests :
          /\ ~ScorerPrepareRaises(f)
          /\ LET fv == ScorerPrepareFeatureVector(f)
                 preds == GetEnsemblePredictions(fv, NoNoise, {})
             IN /\ features' = f
                /\ feature_vector' = fv
                /\ predictions' = preds
                /\ terms' = ScorerTerms(fv, preds, NoNoise)
                /\ result' = EnsembleResult(fv, preds)
    /\ noise' = NoNoise
    /\ failed' = {}
    /\ pc' = "serving"
    /\ UNCHANGED <<prediction, env, rng, threads, config, held>>

\* score_features returns _fallback_scoring's response, whose
\* featureImportance is self.feature_importance itself
LibScoreFallback ==
    /\ pc \in {"constructed", "serving"}
    /\ \E f \in LibRequests :
          /\ ScorerPrepareRaises(f)
          /\ ~FallbackRaises(f)
          /\ features' = f
          /\ result' = FallbackScoring(f)
    /\ held' = held \cup {"feature_importance"}
    /\ pc' = "serving"
    /\ UNCHANGED <<prediction, env, noise, failed, feature_vector, predictions,
                   terms, rng, threads, config>>

\* generate_shap_explanation returns from its try block (approximation path,
\* no charts): every value of the response is built during the call
LibExplain ==
    /\ pc \in {"constructed", "serving"}
    /\ \E f \in LibRequests, pred \in {Absent, Num(80)} :
          /\ ~ExplainerPrepareRaises(f)
          /\ LET fv == ExplainerPrepareFeatureVector(f)
             IN /\ features' = f
                /\ prediction' = pred
                /\ feature_vector' = fv
                /\ terms' = ShapTerms(fv, pred)
                /\ result' = ExplanationResult(
                                 fv, CalculateApproximateShap(fv, pred), "none")
    /\ noise' = NoShapNoise
    /\ pc' = "serving"
    /\ UNCHANGED <<env, failed, predictions, rng, threads, config, held>>

\* the caller assigns to an entry of a dict it got in a response; the model
\* follows the objects up to the first such write
CallerWrites ==
    /\ pc = "serving"
    /\ "feature_importance" \in held
    /\ "featureImportance" \in DOMAIN result
    /\ \E i \in 1..Len(feature_importance) :
          config' = [config EXCEPT !.feature_importance[i][2] = 0]
    /\ pc' = "written"
    /\ UNCHANGED <<features, prediction, env, noise, failed, feature_vector,
                   predictions, terms, result, rng, threads, held>>

LibNext == LibScoreEnsemble \/ LibScoreFallback \/ LibExplain \/ CallerWrites

SpecLib == LibInit /\ [][LibNext]_vars

\* ======================================================================
\* Claims
\* ======================================================================

\* C1 (checked under SpecShap): whenever the raw contributions
\* (value - 0.5) * weight do not sum to zero, the emitted shapValues sum to
\* riskScore - 0.5 within 1e-6, on the tree path, the linear approximation
\* path and the fallback explanation alike.
C1_Conservation ==
    (pc = "exit0" /\ terms.raw_sum # 0) =>
        LET sv == result.shapValues
        IN Abs(SumFun(sv.num, DOMAIN sv.num) - terms.total * sv.den)
               <= Abs(sv.den) \div TENK

\* C2 (checked under SpecNorm): the vector of _prepare_feature_vector, in the
\* scorer and in the explainer, has an entry for every enumerated feature
\* name and every entry lies in [0,1].
C2_VectorCompleteAndBounded ==
    /\ pc = "scorer_vector" =>
          /\ DOMAIN feature_vector = 1..Len(feature_names)
          /\ \A i \in DOMAIN feature_vector :
                feature_vector[i] >= 0 /\ feature_vector[i] <= ONE
    /\ pc = "explainer_vector" =>
          /\ DOMAIN feature_vector = ShapNames
          /\ \A name \in DOMAIN feature_vector :
                feature_vector[name] >= 0 /\ feature_vector[name] <= ONE

\* a raw value above the feature's range was supplied and the explainer's
\* vector holds it clamped to 1
C2_Witness ==
    /\ pc = "explainer_vector"
    /\ features["wordCount"] = Num(60000)
    /\ feature_vector["wordCount"] = ONE

\* C3 (checked under SpecNorm): an enumerated feature whose raw entry is
\* missing, None or non-finite (NaN, +infinity, -infinity) is normalized to
\* exactly 0.5.
C3_MissingOrNonFiniteIsHalf ==
    LET neutral(raw) == raw.kind \in {"absent", "none", "nan", "posinf", "neginf"}
    IN /\ pc = "scorer_vector" =>
             \A i \in DOMAIN feature_vector :
                 neutral(features[feature_names[i]]) =>
                     feature_vector[i] = ONE \div 2
       /\ pc = "explainer_vector" =>
             \A name \in DOMAIN feature_vector :
                 neutral(features[name]) => feature_vector[name] = ONE \div 2

\* C4: on the ensemble path riskScore lies in [0,1], every modelPredictions
\* entry lies in [0,1] and confidence lies in [0.3, 0.95].
C4_EnsembleRanges ==
    (pc = "exit0" /\ result.modelType = "ensemble") =>
        /\ result.riskScore.kind = "num"
        /\ result.riskScore.den > 0
        /\ result.riskScore.num >= 0
        /\ result.riskScore.num <= result.riskScore.den
        /\ \A m \in DOMAIN result.modelPredictions :
              result.modelPredictions[m] >= 0 /\ result.modelPredictions[m] <= MICRO
        /\ result.confidence >= 3000
        /\ result.confidence <= 9500

\* a model whose weighted sum plus noise exceeds 1 is held at 1
C4_Witness ==
    /\ pc = "exit0"
    /\ result.modelType = "ensemble"
    /\ \E m \in DOMAIN predictions :
          terms.base_score[m] + noise[m] > MICRO /\ predictions[m] = MICRO

\* the weighted sum in which every weight meets the value of its own feature
C5_NamedSum(fv, bias) ==
    SumSeq([i \in 1..Len(feature_importance) |->
               fv[IndexOf(feature_importance[i][1])] * feature_importance[i][2]
               * bias])

\* C5: each model's pre-noise contribution is the sum over the weighted
\* features of (normalized value of that feature) * (weight of that feature)
\* * (bias multiplier of the model).
C5_WeightPairedWithNamedFeature ==
    (pc = "exit0" /\ result.modelType = "ensemble") =>
        \A m \in DOMAIN terms.base_score :
            terms.base_score[m]
                = C5_NamedSum(feature_vector, BiasMultiplier(models[m].type))

\* C6: for a non-empty set of surviving predictions riskScore is
\* sum(prediction_m * accuracy_m) / sum(accuracy_m) over exactly the models
\* that did not fail.  The fraction is compared by its numerator and
\* denominator (predictions are in 1/MICRO).
C6_WeightedMean ==
    (pc = "exit0" /\ result.modelType = "ensemble"
        /\ DOMAIN result.modelPredictions # {}) =>
        LET S == ModelNames \ failed
        IN /\ DOMAIN result.modelPredictions = S
           /\ result.riskScore.num
                 = SumFun([m \in S |-> result.modelPredictions[m]
                                          * models[m].accuracy], S)
           /\ result.riskScore.den
                 = MICRO * SumFun([m \in S |-> models[m].accuracy], S)

\* three models survive with three different predictions
C6_Witness ==
    /\ pc = "exit0"
    /\ result.modelType = "ensemble"
    /\ Cardinality(failed) = 1
    /\ Cardinality({result.modelPredictions[m] :
                       m \in DOMAIN result.modelPredictions}) = 3

\* C7: when no model produces a prediction the response has riskScore 0.5,
\* confidence 0.3 and modelType "fallback".
C7_EmptyEnsembleIsFallback ==
    (pc = "exit0" /\ failed = ModelNames) =>
        /\ result.riskScore = Half
        /\ result.confidence = 3000
        /\ result.modelType = "fallback"

\* C8: confidence = clamp(base + completeness bonus + extremity bonus, 0.3,
\* 0.95), base = 0.7 for one prediction and max(0.5, 1 - 2 * stddev)
\* otherwise, extremity bonus = |mean - 0.5| * 0.1; and with the other terms
\* fixed a smaller standard deviation never gives a lower confidence.
\* stddev and the bonus are the values on the confidence grid (rounded down).
C8_ConfidenceFormula ==
    (pc = "exit0" /\ result.modelType = "ensemble"
        /\ DOMAIN result.modelPredictions # {}) =>
        LET P == result.modelPredictions
            D == DOMAIN P
            n == Cardinality(D)
            s1 == SumFun([m \in D |-> P[m] \div 1000], D)
            s2 == SumFun([m \in D |-> (P[m] \div 1000) * (P[m] \div 1000)], D)
            dev == Abs(SumFun(P, D) - n * (MICRO \div 2))
            base == IF n = 1 THEN 7000
                    ELSE IF 10000 - 2 * terms.std < 5000 THEN 5000
                    ELSE 10000 - 2 * terms.std
            total == base + terms.completeness + terms.extreme
        IN /\ (terms.std * n) * (terms.std * n) <= 100 * (n * s2 - s1 * s1)
           /\ 100 * (n * s2 - s1 * s1) < (terms.std * n + n) * (terms.std * n + n)
           /\ terms.extreme * (n * 1000) <= dev
           /\ dev < (terms.extreme + 1) * (n * 1000)
           /\ result.confidence
                 = (IF total < 3000 THEN 3000
                    ELSE IF total > 9500 THEN 9500 ELSE total)
           /\ \A d \in {1, 10, 100, 1000} :
                 terms.std - d >= 0 =>
                     ConfidenceOf(n, terms.std - d, terms.completeness,
                                  terms.extreme) >= result.confidence

\* several models disagree enough that the ceiling 0.95 does not hide the sum
C8_Witness ==
    /\ pc = "exit0"
    /\ result.modelType = "ensemble"
    /\ terms.n >= 2
    /\ terms.std > 1000
    /\ result.confidence < 9500
    /\ result.confidence > 7000

\* the enumerated features present and finite in the raw mapping
C9_PresentFinite(f) == {name \in ScorerNames : f[name].kind = "num"}

\* C9: the completeness bonus is (enumerated features present and finite in
\* the raw input mapping, before defaults are filled in) / (enumerated
\* features) * 0.2; an empty mapping gets the bonus 0.
C9_CompletenessCountsRawFeatures ==
    (pc = "exit0" /\ result.modelType = "ensemble"
        /\ DOMAIN result.modelPredictions # {}) =>
        terms.completeness
            = (Cardinality(C9_PresentFinite(features)) * 2000)
                  \div Len(feature_names)

\* C10: featuresUsed counts the features the caller supplied; for an empty
\* mapping every feature defaults to 0.5 and featuresUsed is 0.
C10_FeaturesUsedCountsSupplied ==
    (pc = "exit0" /\ result.modelType = "ensemble") =>
        /\ result.featuresUsed
              = Cardinality({name \in ScorerNames : features[name].kind # "absent"})
        /\ features = Uniform(Absent) =>
              /\ \A i \in DOMAIN feature_vector : feature_vector[i] = ONE \div 2
              /\ result.featuresUsed = 0

\* C11: in every response of score_features, ensemble and fallback alike, the
\* featureImportance values are non-negative and sum to 1.
C11_ImportanceIsDistribution ==
    (pc = "exit0" /\ result.modelType \in {"ensemble", "fallback"}) =>
        LET imp == result.featureImportance
        IN /\ imp.den > 0
           /\ \A name \in DOMAIN imp.num : imp.num[name] >= 0
           /\ SumFun(imp.num, DOMAIN imp.num) = imp.den

\* an ensemble response whose importances were moved off the table by the
\* feature values, so that the division by the total is what makes them sum to 1
C11_Witness ==
    /\ pc = "exit0"
    /\ result.modelType = "ensemble"
    /\ \E i \in DOMAIN feature_vector : feature_vector[i] # ONE \div 2
    /\ result.featureImportance.den > 10 * ONE + 20

\* the requests of one process that have been answered
Answered == {t \in DOMAIN threads : threads[t].result.modelType # "none"}

\* C12 (checked under SpecConc): two invocations with identical features and
\* the same options.noiseSeed produce identical riskScore, confidence and
\* modelPredictions: the perturbation is a function of the seed in the request.
C12_SeededDeterminism ==
    \A t \in Answered, u \in Answered :
        (/\ threads[t].features = threads[u].features
         /\ threads[t].options.noiseSeed = threads[u].options.noiseSeed) =>
            /\ threads[t].result.riskScore = threads[u].result.riskScore
            /\ threads[t].result.confidence = threads[u].result.confidence
            /\ threads[t].result.modelPredictions
                  = threads[u].result.modelPredictions

\* C13: score_features never propagates an exception: for every input, the
\* features being None or holding a non-numeric cognitiveHealthScore or
\* hesitationRatio included, a failure becomes a returned fallback response.
C13_ScoreFeaturesAlwaysReturns ==
    (pc \in {"exit0", "exit1"} /\ env.input \in {"object", "features_null"}) =>
        /\ pc = "exit0"
        /\ result.modelType \in {"ensemble", "fallback"}

\* C14 (checked under SpecShap): generate_shap_explanation never propagates
\* an exception: whenever the main path fails, normalization included, it
\* still returns a schema-valid degraded response.
C14_ExplanationAlwaysReturns ==
    (pc \in {"exit0", "exit1"} /\ env.input \in {"object", "features_null"}) =>
        /\ pc = "exit0"
        /\ result.modelType \in {"ensemble", "fallback"}

\* 0.7 * cognitiveHealthScore + 0.3 * 0.5 when the primary feature is present,
\* 0.5 otherwise, in 1/TENK
C15_Blend(f) ==
    IF f["cognitiveHealthScore"].kind = "num"
    THEN 70 * f["cognitiveHealthScore"].val + 1500
    ELSE TENK \div 2

C15_Finite(f) ==
    /\ f["cognitiveHealthScore"].kind \in {"absent", "num"}
    /\ f["hesitationRatio"].kind \in {"absent", "num"}

\* C15 as stated: on the fallback path riskScore depends only on the primary
\* feature: it is 0.7 * cognitiveHealthScore + 0.3 * 0.5 when that feature is
\* present and exactly 0.5 otherwise, for every value of every other feature;
\* confidence is exactly 0.4 and the response carries an error description.
C15_PrimaryFeatureOnly ==
    (pc = "exit0" /\ result.modelType = "fallback" /\ C15_Finite(features)) =>
        /\ result.riskScore = Frac(C15_Blend(features), TENK)
        /\ result.confidence = 4000
        /\ "error" \in DOMAIN result

\* C15 amended: on the fallback path riskScore depends only on
\* cognitiveHealthScore and hesitationRatio: with b the blend above, it is b
\* when hesitationRatio is missing and max(0, b - 0.2 * hesitationRatio) when
\* it is present, for every value of every other feature; confidence is
\* exactly 0.4 and the response carries an error description.
C15_PrimaryFeatureAndHesitation ==
    (pc = "exit0" /\ result.modelType = "fallback" /\ C15_Finite(features)) =>
        /\ result.riskScore
              = Frac(IF features["hesitationRatio"].kind = "num"
                     THEN Max(0, C15_Blend(features)
                                   - 20 * features["hesitationRatio"].val)
                     ELSE C15_Blend(features),
                     TENK)
        /\ result.confidence = 4000
        /\ "error" \in DOMAIN result

\* a fallback response where both features and a third one are present and
\* the hesitation penalty took something off the blend without reaching 0
C15_Witness ==
    /\ pc = "exit0"
    /\ result.modelType = "fallback"
    /\ features["cognitiveHealthScore"].kind = "num"
    /\ features["hesitationRatio"].kind = "num"
    /\ features["hesitationRatio"].val > 0
    /\ features["informationDensity"].kind = "num"
    /\ result.riskScore.kind = "num"
    /\ result.riskScore.num > 0
    /\ result.riskScore.num < C15_Blend(features)

\* the fields of an ensemble response
C16_EnsembleFields ==
    {"riskScore", "confidence", "featureImportance", "modelPredictions",
     "processingTime", "modelType", "featuresUsed", "timestamp"}

\* C16: the fallback response is schema-identical: every field of an ensemble
\* response is also present in the fallback response, which additionally
\* carries error.
C16_FallbackSchemaIdentical ==
    (pc = "exit0" /\ result.modelType = "fallback") =>
        /\ C16_EnsembleFields \subseteq DOMAIN result
        /\ "error" \in DOMAIN result

\* C17 (checked under SpecShap): a failure anywhere in visualization
\* rendering, creating the output directory included, never changes the
\* attribution: shapValues and modelType are what they would be with no
\* explanationTypes requested, and the failure is reported only inside
\* visualizations, for the affected chart kind.
C17_RenderingNeverChangesAttribution ==
    (pc = "exit0" /\ env.viz \in {"chart_failed", "makedirs_failed"}) =>
        /\ result.shapValues
              = CalculateShapValues(feature_vector, prediction, noise,
                                    env.shap_available)
        /\ result.modelType = "ensemble"
        /\ "error" \notin DOMAIN result

\* C18: main() exits non-zero if and only if the top-level input is missing
\* or malformed, and then prints one error response with modelType "error";
\* every failure inside the engine is emitted as a degraded response with
\* exit status zero.
C18_ExitStatus ==
    pc \in {"exit0", "exit1"} =>
        /\ (pc = "exit1") <=> (env.input \in {"missing", "malformed"})
        /\ (pc = "exit1") => result.modelType = "error"
        /\ (pc = "exit0") => result.modelType \in {"ensemble", "fallback"}

\* C19 (checked under SpecShap): scenario C, only hesitationRatio = 1.0 is
\* supplied: for every riskScore other than 0.5 the attribution of
\* hesitationRatio is negative, its magnitude is |riskScore - 0.5|, and the
\* attribution of every other feature is 0.
C19_ScenarioC ==
    (/\ pc = "exit0"
     /\ features = Override(Absent, "hesitationRatio", Num(ONE))
     /\ prediction.kind = "num"
     /\ prediction.val # expected_value) =>
        LET sv == result.shapValues
            h == sv.num["hesitationRatio"]
        IN /\ (h < 0 /\ sv.den > 0) \/ (h > 0 /\ sv.den < 0)
           /\ Abs(h) = Abs(sv.den) * Abs(prediction.val - expected_value)
           /\ \A name \in DOMAIN sv.num \ {"hesitationRatio"} : sv.num[name] = 0

\* the response to request t had it been served alone by a process whose
\* generator is in the state it had when t began
C20_Alone(t) ==
    LET g == [seed |-> rng.seed, pos |-> threads[t].start]
    IN ScoreFeatures(threads[t].features, threads[t].options,
                     [k \in 1..Len(ModelOrder) |->
                         Normal([g EXCEPT !.pos = @ + k - 1])])

\* C20 (checked under SpecConc): concurrent invocations are independent: for
\* any interleaving of two requests, each request's results are the same as
\* if that request had run alone, because no step of one request reads state
\* written by another, the state of the noise generator included.
C20_ConcurrentIndependent ==
    \A t \in Answered : threads[t].result = C20_Alone(t)

\* a response that tells the caller it is degraded
C21_Degraded(r) ==
    \/ r.modelType # "ensemble"
    \/ "error" \in DOMAIN r
    \/ "degraded" \in DOMAIN r

\* C21 (checked under SpecShap): when the raw contributions sum to exactly
\* zero (for example every feature at 0.5), every emitted shapValue is exactly
\* 0, and the result is marked degraded if and only if riskScore - 0.5 is
\* non-zero.
C21_DegenerateAttribution ==
    (pc = "exit0" /\ env.viz = "none" /\ terms.raw_sum = 0) =>
        /\ \A name \in DOMAIN result.shapValues.num :
              result.shapValues.num[name] = 0
        /\ C21_Degraded(result) <=> (terms.total # 0)

\* the contributions of the tree path after the noise, before the rescaling
C23_Perturbed == PerturbedContributions(feature_vector, prediction, noise)

C23_PerturbedSum == SumFun(C23_Perturbed.num, DOMAIN C23_Perturbed.num)

C26_Amplified(name) ==
    Abs(result.shapValues.num[name])
        > Abs(result.shapValues.den) * Abs(terms.total)

\* C26 (checked under SpecShap): rescaling by the signed sum can amplify:
\* whenever a perturbed contribution is larger in magnitude than the signed
\* sum of all of them (contributions of opposite sign that nearly cancel) and
\* the target is non-zero, the emitted attribution of that feature has a
\* magnitude larger than |riskScore - 0.5|; such inputs are reachable.
C26_RescalingAmplifies ==
    (/\ pc = "exit0"
     /\ env.shap_available
     /\ result.modelType = "ensemble"
     /\ terms.total # 0
     /\ C23_PerturbedSum # 0) =>
        \A name \in DOMAIN C23_Perturbed.num :
            Abs(C23_Perturbed.num[name]) > Abs(C23_PerturbedSum)
                => C26_Amplified(name)

\* a tree-path response where contributions of opposite sign nearly cancel
\* and an emitted attribution exceeds the target in magnitude
C26_Witness ==
    /\ pc = "exit0"
    /\ env.shap_available
    /\ result.modelType = "ensemble"
    /\ terms.total # 0
    /\ C23_PerturbedSum # 0
    /\ \E a \in DOMAIN C23_Perturbed.num, b \in DOMAIN C23_Perturbed.num :
          /\ C23_Perturbed.num[a] > 0
          /\ C23_Perturbed.num[b] < 0
          /\ Abs(C23_Perturbed.num[a]) > Abs(C23_PerturbedSum)
          /\ C26_Amplified(a)

\* C22 (checked under SpecShap): scoring and attribution use the same weight
\* table and baseline: for every feature that has a weight in both
\* components, the weight (value and sign) the explainer multiplies the
\* feature's deviation with equals the weight of the scorer's table, so a
\* feature that raises the score never receives an opposite-signed prior.
C22_SharedWeightTable ==
    pc = "exit0" =>
        /\ \A i \in 1..Len(feature_importance) :
              feature_importance[i][1] \in DOMAIN feature_weights =>
                  RawContribution(feature_vector, feature_importance[i][1])
                      = (feature_vector[feature_importance[i][1]] - ONE \div 2)
                            * feature_importance[i][2]
        /\ result.baseValue = ONE \div 2

\* C24: when the computation of one model raises, that model is absent from
\* modelPredictions and from both the numerator and the denominator of the
\* weighted average, the remaining models are still aggregated, and
\* score_features still returns an ensemble response rather than the fallback.
C24_FailedModelSkipped ==
    (pc = "exit0" /\ failed # {} /\ failed # ModelNames) =>
        LET P == result.modelPredictions
        IN /\ result.modelType = "ensemble"
           /\ \A m \in failed : m \notin DOMAIN P
           /\ \A m \in ModelNames \ failed : m \in DOMAIN P
           /\ result.riskScore.num
                 = SumFun([m \in ModelNames |->
                              IF m \in failed THEN 0
                              ELSE P[m] * models[m].accuracy], ModelNames)
           /\ result.riskScore.den
                 = MICRO * (SumFun([m \in ModelNames |-> models[m].accuracy],
                                   ModelNames)
                            - SumFun([m \in failed |-> models[m].accuracy],
                                     failed))

\* one model raised and the three others were aggregated
C24_Witness ==
    /\ pc = "exit0"
    /\ failed = {"gradient_boosting"}
    /\ result.modelType = "ensemble"
    /\ DOMAIN result.modelPredictions
          = {"random_forest", "neural_network", "svm"}
    /\ result.riskScore.num > 0

\* C25: the riskScore of a fallback response of score_features lies in [0,1]
\* for every numeric value of the raw cognitiveHealthScore and hesitationRatio
\* entries, raw values outside [0,1] included.
C25_FallbackScoreInUnitInterval ==
    (pc = "exit0" /\ result.modelType = "fallback" /\ C15_Finite(features)) =>
        /\ result.riskScore.num >= 0
        /\ result.riskScore.num <= result.riskScore.den

\* the accuracies under the fraction riskScore, whose denominator is MICRO
\* times their sum
C28_Accuracies == result.riskScore.den \div MICRO

\* C28: for every non-empty set of model predictions, the riskScore returned
\* by _calculate_ensemble_score lies between the smallest and the largest
\* individual model prediction (inclusive).
C28_ScoreBetweenExtremes ==
    (pc = "exit0" /\ result.modelType = "ensemble"
        /\ DOMAIN result.modelPredictions # {}) =>
        LET P == result.modelPredictions
        IN /\ result.riskScore.den = MICRO * C28_Accuracies
           /\ \E m \in DOMAIN P : P[m] * C28_Accuracies <= result.riskScore.num
           /\ \E m \in DOMAIN P : P[m] * C28_Accuracies >= result.riskScore.num

\* some models failed, the others disagree, and the score is strictly inside
C28_Witness ==
    /\ pc = "exit0"
    /\ result.modelType = "ensemble"
    /\ failed # {}
    /\ \E m \in DOMAIN result.modelPredictions :
          result.modelPredictions[m] * C28_Accuracies < result.riskScore.num
    /\ \E m \in DOMAIN result.modelPredictions :
          result.modelPredictions[m] * C28_Accuracies > result.riskScore.num

\* C29: on the ensemble path of score_features with at least one model
\* prediction, the confidence is never below 0.7, whatever the input mapping
\* and however much the models disagree.
C29_ConfidenceAtLeastSevenTenths ==
    (pc = "exit0" /\ result.modelType = "ensemble"
        /\ DOMAIN result.modelPredictions # {}) =>
        result.confidence >= 7000

\* the empty mapping, and models that disagree so much that the agreement
\* term is at its floor
C29_Witness ==
    /\ pc = "exit0"
    /\ result.modelType = "ensemble"
    /\ features = Uniform(Absent)
    /\ terms.n >= 2
    /\ TENK - terms.std * 2 < TENK \div 2
    /\ result.confidence < 9500

\* the vector of the request that differs from this one in one raw value
C30_OtherVector(name, v) ==
    ScorerPrepareFeatureVector([features EXCEPT ![name] = Num(v)])

\* C30: every feature that has a weight in the scorer's table influences the
\* score: for two requests that differ only in the raw value of
\* hesitationRatio (or only in informationDensity) and use the same noise
\* draws, the per-model predictions before clamping differ.
C30_WeightedFeatureInfluences ==
    (pc = "exit0" /\ result.modelType = "ensemble") =>
        \A name \in {"hesitationRatio", "informationDensity"}, v \in {0, ONE},
           m \in ModelNames :
            C30_OtherVector(name, v) # feature_vector =>
                SimulateModelPredictionUnclamped(C30_OtherVector(name, v),
                                                 models[m], noise[m])
                    # SimulateModelPredictionUnclamped(feature_vector,
                                                       models[m], noise[m])

\* C27 (checked under SpecLib): no operation of the engine mutates the
\* configuration after construction: after any sequence of score_features and
\* generate_shap_explanation calls, feature_names, the weight tables, the
\* models table and expected_value hold the values set by the constructor,
\* and no response gives the caller a handle through which an internal table
\* can be changed.
C27_ConfigurationImmutable ==
    /\ config = Constructed
    /\ held = {}

====
